---------------------------- MODULE Spec2Model ----------------------------
(***************************************************************************)
(* Model of the Alpine system-status log parser (src/gui/alplogparser.py). *)
(*                                                                         *)
(* Text is a sequence of atoms.  An atom is a maximal run of characters of *)
(* one class: a word, a single blank " ", a four-blank indentation "    ", *)
(* a line break "\n", or one of the punctuation characters ":", "#", "-".  *)
(* The Python string operations used by the parser (strip, startswith,     *)
(* replace, split) are defined on these sequences.                         *)
(***************************************************************************)
EXTENDS Integers, Sequences, FiniteSets, TLC

VARIABLES
    heap,            \* the objects created so far, by identity (1..Len(heap))
    modules,         \* AlpLogParser.modules: identities, in append order
    current_module,  \* the local current_module: an identity, or None
    status,          \* "run" inside the for loop, "done" after __init__ returned, "error" after it raised
    err,             \* the exception that ended __init__ ("" when none)
    input,           \* history: the lines read from the file so far
    splits,          \* history: number of lines whose add_line returned a new instance
    last             \* history: what the last loop iteration did and on which record

vars == <<heap, modules, current_module, status, err, input, splits, last>>

None == 0

----------------------------------------------------------------------------
(* Python str operations, on atom sequences *)

WsAtoms == {" ", "    ", "\n"}

IsWs(a) == a \in WsAtoms

RECURSIVE lstrip(_)
lstrip(s) == IF s # <<>> /\ IsWs(Head(s)) THEN lstrip(Tail(s)) ELSE s

RECURSIVE rstrip(_)
rstrip(s) == IF s # <<>> /\ IsWs(s[Len(s)]) THEN rstrip(SubSeq(s, 1, Len(s) - 1)) ELSE s

strip(s) == rstrip(lstrip(s))

startswith(s, p) == Len(s) >= Len(p) /\ SubSeq(s, 1, Len(p)) = p

\* str.replace(old, ''): every non-overlapping occurrence of old, left to right
RECURSIVE replace(_, _)
replace(s, old) ==
    IF old = <<>> \/ s = <<>> THEN s
    ELSE IF startswith(s, old) THEN replace(SubSeq(s, Len(old) + 1, Len(s)), old)
    ELSE <<Head(s)>> \o replace(Tail(s), old)

\* str.split(sep) for a one-atom separator: the pieces between the separators
RECURSIVE split_on(_, _)
split_on(s, sep) ==
    IF \A i \in 1..Len(s) : s[i] # sep THEN <<s>>
    ELSE LET i == CHOOSE j \in 1..Len(s) : s[j] = sep /\ \A k \in 1..(j - 1) : s[k] # sep
         IN  <<SubSeq(s, 1, i - 1)>> \o split_on(SubSeq(s, i + 1, Len(s)), sep)

\* str.split(): the maximal runs of non-blank atoms
RECURSIVE split_ws(_)
split_ws(s) ==
    LET t == lstrip(s)
    IN  IF t = <<>> THEN <<>>
        ELSE IF \A i \in 1..Len(t) : ~IsWs(t[i]) THEN <<t>>
        ELSE LET i == CHOOSE j \in 1..Len(t) : IsWs(t[j]) /\ \A k \in 1..(j - 1) : ~IsWs(t[k])
             IN  <<SubSeq(t, 1, i - 1)>> \o split_ws(SubSeq(t, i, Len(t)))

\* s[1:]
drop_first(s) == IF s = <<>> THEN <<>> ELSE Tail(s)

split_first_colon(line) ==
    LET l     == strip(line)
        parts == split_on(l, ":")
        key   == strip(parts[1])
        data0 == strip(replace(l, key))
        data  == strip(drop_first(data0))
    IN  [key |-> key, data |-> data]

----------------------------------------------------------------------------
(* Number texts: int(), float() and the strptime fields *)

IntTable ==
    [a \in {"0", "1", "2", "3", "5", "05", "12", "17", "34", "42", "50", "56", "200",
            "500", "800", "950", "1000", "2020"} |->
        CASE a = "0" -> 0 [] a = "1" -> 1 [] a = "2" -> 2 [] a = "3" -> 3 [] a = "5" -> 5
          [] a = "05" -> 5 [] a = "12" -> 12 [] a = "17" -> 17 [] a = "34" -> 34
          [] a = "42" -> 42 [] a = "50" -> 50 [] a = "56" -> 56 [] a = "200" -> 200
          [] a = "500" -> 500 [] a = "800" -> 800 [] a = "950" -> 950
          [] a = "1000" -> 1000 [] a = "2020" -> 2020]

\* int(text) succeeds on a single number atom (surrounding blanks allowed)
IsInt(s) == Len(strip(s)) = 1 /\ strip(s)[1] \in DOMAIN IntTable

IntOf(s) == IntTable[strip(s)[1]]

FloatAtoms == {"2400.000", "4800.00"}

IsFloat(s) == IsInt(s) \/ (Len(strip(s)) = 1 /\ strip(s)[1] \in FloatAtoms)


----------------------------------------------------------------------------
(* Values and the items dict (insertion-ordered) *)

StrKey(s) == [t |-> "str", s |-> s, n |-> 0]
IntKey(n) == [t |-> "int", s |-> <<>>, n |-> n]

\* A value: tag t, with the int/bool in n, a text in s, a list of texts in l,
\* date/time fields in q and a sub-dict of ints in m.
Val(t, n, s, l, q, m) == [t |-> t, n |-> n, s |-> s, l |-> l, q |-> q, m |-> m]
IntVal(n)    == Val("int", n, <<>>, <<>>, <<>>, <<>>)
BoolVal(b)   == Val("bool", IF b THEN 1 ELSE 0, <<>>, <<>>, <<>>, <<>>)
TextVal(s)   == Val("str", 0, s, <<>>, <<>>, <<>>)
FloatVal(s)  == Val("float", 0, s, <<>>, <<>>, <<>>)
ListVal(l)   == Val("list", 0, <<>>, l, <<>>, <<>>)
DateVal(q)   == Val("date", 0, <<>>, <<>>, q, <<>>)
TimeVal(q)   == Val("time", 0, <<>>, <<>>, q, <<>>)
DictVal(m)   == Val("dict", 0, <<>>, <<>>, <<>>, m)

Has(items, key) == \E i \in 1..Len(items) : items[i].k = key

Get(items, key) == items[CHOOSE i \in 1..Len(items) : items[i].k = key].v

\* items[key] = value
Put(items, key, value) ==
    IF Has(items, key)
    THEN [i \in 1..Len(items) |-> IF items[i].k = key THEN [k |-> key, v |-> value] ELSE items[i]]
    ELSE Append(items, [k |-> key, v |-> value])

IsFieldKey(key) == key # [t |-> "str", s |-> <<"lines">>, n |-> 0]

\* AlpLogModule.to_table_header: the keys but 'lines', in insertion order
to_table_header(items) == SelectSeq([i \in 1..Len(items) |-> items[i].k], IsFieldKey)

K_lines == StrKey(<<"lines">>)

----------------------------------------------------------------------------
(* Section records *)

Kinds == {"Header", "Ignore", "Unknown", "CPU", "Memory", "Network", "IPAddress",
          "Disks", "Mount", "ZFSPools", "SmartStatus", "RCStatus", "USB",
          "UpgradablePackages", "Process", "Users", "Groups"}

NoTs == <<>>

\* AlpLogModule.__init__ (and the __init__ of UpgradablePackages, Users, Groups,
\* whose private list is acc).  The other fields are history: nfin, the
\* number of finalise() calls; late, whether the record was touched after
\* one; fed, the non-blank lines its add_line was called with; origin,
\* whether detect_module ("header") or an add_line ("split") created it.
NewModule(kind) ==
    [kind      |-> kind,
     timestamp |-> NoTs,
     items     |-> << [k |-> K_lines, v |-> ListVal(<<>>)] >>,
     acc       |-> <<>>,
     nfin      |-> 0,
     late      |-> FALSE,
     fed       |-> <<>>,
     origin    |-> "header"]

\* set_timestamp
set_timestamp(self, timestamp) ==
    [self EXCEPT !.timestamp = timestamp, !.late = self.late \/ self.nfin > 0]

\* What add_line gives back: the record after the call, the new instance it
\* returned (split), or the exception it raised.
Ret(self)          == [self |-> self, split |-> FALSE, new |-> self, exc |-> ""]
RetNew(self, new)  == [self |-> self, split |-> TRUE, new |-> new, exc |-> ""]
Raise(self, exc)   == [self |-> self, split |-> FALSE, new |-> self, exc |-> exc]

Touch(self) == [self EXCEPT !.late = self.late \/ self.nfin > 0]

\* Variant of AlpLogModule.add_line without the test for a blank line.
Base_add_line_keeps_blank(self, line) ==
    LET old == Get(self.items, K_lines)
    IN  Ret([Touch(self) EXCEPT !.items = Put(self.items, K_lines, ListVal(Append(old.l, line)))])

\* AlpLogModule.add_line
Base_add_line(self, line) ==
    IF strip(line) = <<>> THEN Ret(self)
    ELSE LET old == Get(self.items, K_lines)
         IN  Ret([Touch(self) EXCEPT !.items = Put(self.items, K_lines, ListVal(Append(old.l, line)))])

----------------------------------------------------------------------------
(* datetime.strptime, .date(), .time() and datetime.combine *)

YearAtoms == {"2020"}

Directives == {"%Y", "%m", "%d", "%H", "%M", "%S"}

FieldRange(d) ==
    CASE d = "%Y" -> 1..9999
      [] d = "%m" -> 1..12
      [] d = "%d" -> 1..31
      [] d = "%H" -> 0..23
      [] d = "%M" -> 0..59
      [] d = "%S" -> 0..61

\* the text matches the format: literals are equal, every directive reads a
\* number of its width (four digits for %Y, one or two otherwise) and range
strptime_ok(data, fmt) ==
    /\ Len(data) = Len(fmt)
    /\ \A i \in 1..Len(fmt) :
          IF fmt[i] \in Directives
          THEN /\ data[i] \in DOMAIN IntTable
               /\ (fmt[i] = "%Y") = (data[i] \in YearAtoms)
               /\ IntTable[data[i]] \in FieldRange(fmt[i])
          ELSE data[i] = fmt[i]

\* the field a directive reads, or the default of strptime when the format lacks it
strptime_field(data, fmt, d, default) ==
    IF \E i \in 1..Len(fmt) : fmt[i] = d
    THEN IntTable[data[CHOOSE i \in 1..Len(fmt) : fmt[i] = d]]
    ELSE default

strptime(data, fmt) ==
    [year   |-> strptime_field(data, fmt, "%Y", 1900),
     month  |-> strptime_field(data, fmt, "%m", 1),
     day    |-> strptime_field(data, fmt, "%d", 1),
     hour   |-> strptime_field(data, fmt, "%H", 0),
     minute |-> strptime_field(data, fmt, "%M", 0),
     second |-> strptime_field(data, fmt, "%S", 0)]

date_of(dt) == <<dt.year, dt.month, dt.day>>
time_of(dt) == <<dt.hour, dt.minute, dt.second>>
combine(d, t) == d \o t

Header_date_format == <<"%Y", "-", "%M", "-", "%d">>
Header_time_format == <<"%H", ":", "%M", ":", "%S">>

----------------------------------------------------------------------------
(* Header *)

K_date == StrKey(<<"date">>)
K_time == StrKey(<<"time">>)

\* Variant of lines 127-130 that takes midnight when there is no time yet.
Header_timestamp_date_only(self) ==
    IF self.timestamp = NoTs /\ Has(self.items, K_date) /\ Get(self.items, K_date).t = "date"
    THEN [self EXCEPT !.timestamp =
             combine(Get(self.items, K_date).q,
                     IF Has(self.items, K_time) /\ Get(self.items, K_time).t = "time"
                     THEN Get(self.items, K_time).q ELSE <<0, 0, 0>>)]
    ELSE self

\* lines 127-130: the timestamp, the first time date and time are both there
\* (a date and a time object are both truthy)
Header_timestamp(self) ==
    IF self.timestamp = NoTs /\ Has(self.items, K_date) /\ Has(self.items, K_time)
       /\ Get(self.items, K_date).t = "date" /\ Get(self.items, K_time).t = "time"
    THEN [self EXCEPT !.timestamp = combine(Get(self.items, K_date).q, Get(self.items, K_time).q)]
    ELSE self

Header_store(self, key, value) ==
    Header_timestamp([Touch(self) EXCEPT !.items = Put(self.items, StrKey(key), value)])

Header_add_line(self, line) ==
    IF strip(line) = <<>> THEN Ret(self)
    ELSE LET kd   == split_first_colon(strip(line))
             key  == kd.key
             data == kd.data
         IN  CASE key = <<"date">> ->
                    IF strptime_ok(data, Header_date_format)
                    THEN Ret(Header_store(self, key, DateVal(date_of(strptime(data, Header_date_format)))))
                    ELSE Raise(self, "ValueError")
               [] key = <<"time">> ->
                    IF strptime_ok(data, Header_time_format)
                    THEN Ret(Header_store(self, key, TimeVal(time_of(strptime(data, Header_time_format)))))
                    ELSE Raise(self, "ValueError")
               [] key = <<"Kernel", " ", "version">> ->
                    Ret(Header_store(self, key, TextVal(replace(data, <<"#">>))))
               [] key = <<"send", " ", "e", "-", "mail">> ->
                    Ret(Header_store(self, key, BoolVal(data = <<"yes">>)))
               [] OTHER ->
                    IF data # <<>> THEN Ret(Header_store(self, key, TextVal(data)))
                    ELSE Ret(Header_timestamp(Touch(self)))

----------------------------------------------------------------------------
(* CPU *)

K_processor == StrKey(<<"processor">>)

CPU_int_keys ==
    {<<"processor">>, <<"cpu", " ", "family">>, <<"model">>, <<"stepping">>,
     <<"physical", " ", "id">>, <<"siblings">>, <<"core", " ", "id">>,
     <<"cpu", " ", "cores">>, <<"apicid">>, <<"initial", " ", "apicid">>,
     <<"cpuid", " ", "level">>, <<"clflush", " ", "size">>, <<"cache_alignment">>}
CPU_float_keys == {<<"cpu", " ", "MHz">>, <<"bogomips">>}
CPU_bool_keys  == {<<"fpu">>, <<"fpu_exception">>, <<"wp">>}
CPU_list_keys  == {<<"flags">>, <<"bugs">>, <<"power", " ", "management">>}

\* str.lower() of the one text the code compares after lowering
lower(s) == IF s \in {<<"yes">>, <<"Yes">>, <<"YES">>} THEN <<"yes">> ELSE s

\* lines 149-163: coerce by key and store
CPU_store(self, key, data) ==
    LET put(v) == Ret([Touch(self) EXCEPT !.items = Put(self.items, StrKey(key), v)])
    IN  CASE key \in CPU_int_keys ->
               IF IsInt(data) THEN put(IntVal(IntOf(data))) ELSE Raise(self, "ValueError")
          [] key \in CPU_float_keys ->
               IF IsFloat(data) THEN put(FloatVal(strip(data))) ELSE Raise(self, "ValueError")
          [] key \in CPU_bool_keys -> put(BoolVal(lower(data) = <<"yes">>))
          [] key \in CPU_list_keys -> put(ListVal(split_ws(data)))
          [] OTHER -> put(TextVal(data))

\* Variant of CPU.add_line whose new instance starts from the fields of the
\* record it is split from.
CPU_add_line_carries_fields(self, line) ==
    IF strip(line) = <<>> THEN Ret(self)
    ELSE LET kd   == split_first_colon(strip(line))
             key  == kd.key
             data == kd.data
         IN  IF key = <<"processor">> /\ Has(self.items, K_processor)
             THEN LET r == CPU_store([NewModule("CPU") EXCEPT !.items = self.items], key, data)
                  IN  IF r.exc # "" THEN Raise(self, r.exc) ELSE RetNew(self, r.self)
             ELSE CPU_store(self, key, data)

CPU_add_line(self, line) ==
    IF strip(line) = <<>> THEN Ret(self)
    ELSE LET kd   == split_first_colon(strip(line))
             key  == kd.key
             data == kd.data
         IN  IF key = <<"processor">> /\ Has(self.items, K_processor)
             THEN LET r == CPU_store(NewModule("CPU"), key, data)
                  IN  IF r.exc # "" THEN Raise(self, r.exc) ELSE RetNew(self, r.self)
             ELSE CPU_store(self, key, data)

----------------------------------------------------------------------------
(* Memory *)

\* str.startswith(prefix) for a word prefix: the first atom is a word that
\* begins with it
MemWords  == {"Mem", "MemTotal"}
SwapWords == {"Swap", "SwapTotal"}

first_word_in(line, words) == line # <<>> /\ Head(line) \in words

\* the exception raised while reading columns data[1..n] as ints, "" when none
\* (columns are read in order: a missing one is an IndexError, a non-number a
\* ValueError)
RECURSIVE columns_exc(_, _, _)
columns_exc(data, i, n) ==
    IF i > n THEN ""
    ELSE IF Len(data) < i + 1 THEN "IndexError"
    ELSE IF ~IsInt(data[i + 1]) THEN "ValueError"
    ELSE columns_exc(data, i + 1, n)

Mem_columns  == <<"total", "used", "free", "shared", "buff/cache", "available">>
Swap_columns == <<"total", "used", "free">>

sub_dict(data, cols) == [i \in 1..Len(cols) |-> [k |-> cols[i], n |-> IntOf(data[i + 1])]]

Memory_add_line(self, line) ==
    IF strip(line) = <<>> THEN Ret(self)
    ELSE LET data == split_ws(line)
             put(name, cols) ==
                 IF columns_exc(data, 1, Len(cols)) # ""
                 THEN Raise(self, columns_exc(data, 1, Len(cols)))
                 ELSE Ret([Touch(self) EXCEPT
                            !.items = Put(self.items, StrKey(<<name>>), DictVal(sub_dict(data, cols)))])
         IN  IF first_word_in(line, MemWords) THEN put("Mem", Mem_columns)
             ELSE IF first_word_in(line, SwapWords) THEN put("Swap", Swap_columns)
             ELSE Ret(self)

\* '{} - {}'.format(key, subkey)
flat_key(key, subkey) == key \o <<" ", "-", " ">> \o <<subkey>>

\* Memory.to_dict: the sub-dicts flattened, in the order of the fields
RECURSIVE Memory_to_dict(_)
Memory_to_dict(items) ==
    IF items = <<>> THEN <<>>
    ELSE (IF Head(items).k = K_lines THEN <<>>
          ELSE LET sub == Head(items).v.m
               IN  [i \in 1..Len(sub) |-> [k |-> flat_key(Head(items).k.s, sub[i].k), n |-> sub[i].n]])
         \o Memory_to_dict(Tail(items))

\* Variant of Memory.to_table_header that lists the fields, not their columns.
Memory_to_table_header_fields(items) ==
    LET keys == SelectSeq([i \in 1..Len(items) |-> items[i].k], IsFieldKey)
    IN  [i \in 1..Len(keys) |-> keys[i].s]

\* Memory.to_table_header: the flattened keys, in the order of the fields
RECURSIVE Memory_to_table_header(_)
Memory_to_table_header(items) ==
    IF items = <<>> THEN <<>>
    ELSE (IF Head(items).k = K_lines THEN <<>>
          ELSE LET sub == Head(items).v.m
               IN  [i \in 1..Len(sub) |-> flat_key(Head(items).k.s, sub[i].k)])
         \o Memory_to_table_header(Tail(items))

----------------------------------------------------------------------------
(* Network *)

K_name == StrKey(<<"name">>)

Inet6Words == {"inet6"}
InetWords  == {"inet", "inet6"}

\* Variant of lines 227-232 that keeps the bucket the record has.
Network_declare_keeps_bucket(self, line) ==
    LET parts == split_on(line, ":")
    IN  IF ~IsInt(parts[1]) THEN Raise(self, "ValueError")
        ELSE IF Len(parts) < 3 THEN Raise(self, "IndexError")
        ELSE Ret([Touch(self) EXCEPT !.items =
                 Put(Put(Put(self.items,
                     StrKey(<<"index">>), IntVal(IntOf(parts[1]))),
                     K_name, TextVal(strip(parts[2]))),
                     StrKey(<<"name_other">>), TextVal(strip(parts[3])))])

\* lines 227-232: a non-indented line declares the interface
Network_declare(self, line) ==
    LET parts == split_on(line, ":")
    IN  IF ~IsInt(parts[1]) THEN Raise(self, "ValueError")
        ELSE IF Len(parts) < 3 THEN Raise(self, "IndexError")
        ELSE Ret([Touch(self) EXCEPT !.items =
                 Put(Put(Put(Put(self.items,
                     StrKey(<<"index">>), IntVal(IntOf(parts[1]))),
                     K_name, TextVal(strip(parts[2]))),
                     StrKey(<<"name_other">>), TextVal(strip(parts[3]))),
                     K_lines, ListVal(<<>>))])

Network_add_line(self, line) ==
    IF strip(line) = <<>> THEN Ret(self)
    ELSE IF ~startswith(line, <<"    ">>)
    THEN IF Has(self.items, K_name)
         THEN LET r == Network_declare(NewModule("Network"), line)
              IN  IF r.exc # "" THEN Raise(self, r.exc) ELSE RetNew(self, r.self)
         ELSE Network_declare(self, line)
    ELSE LET l      == strip(line)
             parts  == split_ws(l)
             bucket == Get(self.items, K_lines)
             kept   == [Touch(self) EXCEPT !.items = Put(self.items, K_lines, ListVal(Append(bucket.l, l)))]
             put(k) == IF Len(parts) < 2 THEN Raise(kept, "IndexError")
                       ELSE Ret([kept EXCEPT !.items = Put(kept.items, StrKey(<<k>>), TextVal(parts[2]))])
         IN  IF first_word_in(l, Inet6Words) THEN put("inet6")
             ELSE IF first_word_in(l, InetWords) THEN put("inet")
             ELSE Ret(kept)

----------------------------------------------------------------------------
(* IPAddress, Mount, SmartStatus, USB, Process *)

IPAddress_add_line(self, line) ==
    IF strip(line) = <<>> THEN Ret(self)
    ELSE Ret([Touch(self) EXCEPT !.items = Put(self.items, StrKey(<<"ip">>), TextVal(strip(line)))])

Mount_add_line(self, line) ==
    IF strip(line) = <<>> THEN Ret(self)
    ELSE Ret([Touch(self) EXCEPT !.items = Put(self.items, StrKey(split_ws(line)[1]), TextVal(line))])

SmartStatus_add_line(self, line) == Ret(self)

USB_add_line(self, line) == Ret(self)

Process_add_line(self, line) == Ret(self)

----------------------------------------------------------------------------
(* Disks *)

\* the tree-drawing characters of lsblk (U+251C, U+2514, U+2500)
Tee   == "|-"
Elbow == "L-"
Dash  == "--"

Disks_using ==
    [i \in {0, 3, 4, 5, 6, 7} |->
        CASE i = 0 -> "name" [] i = 3 -> "size" [] i = 4 -> "ro"
          [] i = 5 -> "fstype" [] i = 6 -> "mountpoint" [] i = 7 -> "uuid"]

\* str.replace(old, ' ') for a one-atom old
replace_by_blank(s, old) == [i \in 1..Len(s) |-> IF s[i] = old THEN " " ELSE s[i]]

Disks_value(part) ==
    replace_by_blank(replace(replace(replace(strip(part), <<Tee>>), <<Tee>>), <<Elbow>>), Dash)

\* lines 281-285: the columns in use, left to right
RECURSIVE Disks_columns(_, _, _)
Disks_columns(items, parts, i) ==
    IF i > Len(parts) THEN items
    ELSE Disks_columns(
            IF (i - 1) \in DOMAIN Disks_using
            THEN Put(items, StrKey(<<Disks_using[i - 1]>>), TextVal(Disks_value(parts[i])))
            ELSE items,
            parts, i + 1)

NameWords == {"NAME", "NAMEpool"}

Disks_add_line(self, line) ==
    IF strip(line) = <<>> THEN Ret(self)
    ELSE IF first_word_in(strip(line), NameWords) THEN Ret(self)
    ELSE IF Has(self.items, K_name)
    THEN LET n == NewModule("Disks")
         IN  RetNew(self, [n EXCEPT !.items = Disks_columns(n.items, split_ws(line), 1)])
    ELSE Ret([Touch(self) EXCEPT !.items = Disks_columns(self.items, split_ws(line), 1)])

----------------------------------------------------------------------------
(* ZFSPools *)

ZFSPools_using ==
    <<"name", "size", "alloc", "free", "ckpoint", "expandsz", "frag", "cap",
      "dedup", "health", "altroot">>

\* 'pool' in parts[0]: a word of the token contains it
PoolWords == {"pool", "rpool", "zpool", "pool1", "pool2", "NAMEpool"}

contains_pool(token) == \E i \in 1..Len(token) : token[i] \in PoolWords

RECURSIVE ZFSPools_columns(_, _, _)
ZFSPools_columns(items, parts, i) ==
    IF i > Len(parts) THEN items
    ELSE ZFSPools_columns(
            IF i <= Len(ZFSPools_using)
            THEN Put(items, StrKey(<<ZFSPools_using[i]>>),
                     TextVal(IF strip(parts[i]) = <<"-">> THEN <<>> ELSE strip(parts[i])))
            ELSE items,
            parts, i + 1)

\* Variant of ZFSPools.add_line without the test of the number of tokens.
ZFSPools_add_line_any_length(self, line) ==
    IF strip(line) = <<>> THEN Ret(self)
    ELSE IF first_word_in(strip(line), NameWords) THEN Ret(self)
    ELSE LET parts == split_ws(line)
         IN  IF contains_pool(parts[1])
             THEN IF Has(self.items, K_name)
                  THEN LET n == NewModule("ZFSPools")
                       IN  RetNew(self, [n EXCEPT !.items = ZFSPools_columns(n.items, parts, 1)])
                  ELSE Ret([Touch(self) EXCEPT !.items = ZFSPools_columns(self.items, parts, 1)])
             ELSE Ret(self)

ZFSPools_add_line(self, line) ==
    IF strip(line) = <<>> THEN Ret(self)
    ELSE IF first_word_in(strip(line), NameWords) THEN Ret(self)
    ELSE LET parts == split_ws(line)
         IN  IF Len(parts) = Len(ZFSPools_using) /\ contains_pool(parts[1])
             THEN IF Has(self.items, K_name)
                  THEN LET n == NewModule("ZFSPools")
                       IN  RetNew(self, [n EXCEPT !.items = ZFSPools_columns(n.items, parts, 1)])
                  ELSE Ret([Touch(self) EXCEPT !.items = ZFSPools_columns(self.items, parts, 1)])
             ELSE Ret(self)

----------------------------------------------------------------------------
(* RCStatus *)

RunlevelWords == {"Runlevel"}

UpperTable ==
    [a \in {"default", "boot", "sysinit", "Default"} |->
        CASE a = "default" -> "DEFAULT" [] a = "Default" -> "DEFAULT"
          [] a = "boot" -> "BOOT" [] a = "sysinit" -> "SYSINIT"]

\* str.upper(): the words with lower-case letters are in the table
upper(s) == [i \in 1..Len(s) |-> IF s[i] \in DOMAIN UpperTable THEN UpperTable[s[i]] ELSE s[i]]

RCStatus_add_line(self, line) ==
    IF strip(line) = <<>> THEN Ret(self)
    ELSE LET parts == split_ws(strip(line))
         IN  IF first_word_in(line, RunlevelWords)
             THEN IF Len(parts) < 2 THEN Raise(self, "IndexError")
                  ELSE Ret([Touch(self) EXCEPT !.items =
                            Put(self.items, StrKey(upper(strip(parts[2]))), TextVal(<<>>))])
             ELSE IF Len(parts) < 3 THEN Raise(self, "IndexError")
                  ELSE Ret([Touch(self) EXCEPT !.items =
                            Put(self.items, StrKey(strip(parts[1])), TextVal(strip(parts[3])))])

----------------------------------------------------------------------------
(* UpgradablePackages, Users, Groups *)

UpgradablePackages_add_line(self, line) ==
    IF strip(line) = <<>> THEN Ret(self)
    ELSE IF startswith(line, <<"UPGRADABLE", " ", "PACKAGES">>) THEN Ret(self)
    ELSE IF startswith(line, <<"-">>) THEN Ret(self)
    ELSE IF first_word_in(line, {"Installed"}) THEN Ret(self)
    ELSE Ret([Touch(self) EXCEPT !.acc = Append(self.acc, strip(line))])

\* str(n) of a list length
str_int(n) == <<ToString(n)>>

\* Variant of UpgradablePackages.finalise that writes the length as it is.
UpgradablePackages_finalise_plain(self) ==
    [self EXCEPT !.items = Put(self.items, StrKey(<<"count">>), TextVal(str_int(Len(self.acc))))]

UpgradablePackages_finalise(self) ==
    [self EXCEPT !.items = Put(self.items, StrKey(<<"count">>),
                               TextVal(IF Len(self.acc) # 0 THEN str_int(Len(self.acc)) ELSE <<>>))]

Users_add_line(self, line) ==
    IF strip(line) = <<>> THEN Ret(self)
    ELSE Ret([Touch(self) EXCEPT !.acc = Append(self.acc, strip(line))])

\* for index, user in enumerate(self._users): self.items[index] = user
RECURSIVE enumerate_into(_, _, _)
enumerate_into(items, acc, i) ==
    IF i > Len(acc) THEN items
    ELSE enumerate_into(Put(items, IntKey(i - 1), TextVal(acc[i])), acc, i + 1)

Users_finalise(self) == [self EXCEPT !.items = enumerate_into(self.items, self.acc, 1)]

Groups_add_line(self, line) ==
    IF strip(line) = <<>> THEN Ret(self)
    ELSE Ret([Touch(self) EXCEPT !.acc = Append(self.acc, strip(line))])

Groups_finalise(self) == [self EXCEPT !.items = enumerate_into(self.items, self.acc, 1)]

----------------------------------------------------------------------------
(* Dispatch on the class of the record *)

add_line(self, line) ==
    CASE self.kind = "Header"             -> Header_add_line(self, line)
      [] self.kind = "CPU"                -> CPU_add_line(self, line)
      [] self.kind = "Memory"             -> Memory_add_line(self, line)
      [] self.kind = "Network"            -> Network_add_line(self, line)
      [] self.kind = "IPAddress"          -> IPAddress_add_line(self, line)
      [] self.kind = "Disks"              -> Disks_add_line(self, line)
      [] self.kind = "Mount"              -> Mount_add_line(self, line)
      [] self.kind = "ZFSPools"           -> ZFSPools_add_line(self, line)
      [] self.kind = "SmartStatus"        -> SmartStatus_add_line(self, line)
      [] self.kind = "RCStatus"           -> RCStatus_add_line(self, line)
      [] self.kind = "USB"                -> USB_add_line(self, line)
      [] self.kind = "UpgradablePackages" -> UpgradablePackages_add_line(self, line)
      [] self.kind = "Process"            -> Process_add_line(self, line)
      [] self.kind = "Users"              -> Users_add_line(self, line)
      [] self.kind = "Groups"             -> Groups_add_line(self, line)
      [] OTHER                            -> Base_add_line(self, line)

finalise(self) ==
    LET done == CASE self.kind = "UpgradablePackages" -> UpgradablePackages_finalise(self)
                  [] self.kind = "Users"              -> Users_finalise(self)
                  [] self.kind = "Groups"             -> Groups_finalise(self)
                  [] OTHER                            -> self
    IN  [done EXCEPT !.nfin = self.nfin + 1]

----------------------------------------------------------------------------
(* factory and detect_module *)

module_headers ==
    << [name |-> <<"IGNORE">>,                      cls |-> "Ignore"],
       [name |-> <<"UNKNOWN">>,                     cls |-> "Unknown"],
       [name |-> <<"CPU">>,                         cls |-> "CPU"],
       [name |-> <<"MEMORY">>,                      cls |-> "Memory"],
       [name |-> <<"NETWORK">>,                     cls |-> "Network"],
       [name |-> <<"EXTERNAL", " ", "IP", " ", "ADDRESS">>, cls |-> "IPAddress"],
       [name |-> <<"DISKS">>,                       cls |-> "Disks"],
       [name |-> <<"MOUNT">>,                       cls |-> "Mount"],
       [name |-> <<"ZFS", " ", "POOLS">>,           cls |-> "ZFSPools"],
       [name |-> <<"SMART", " ", "STATUS">>,        cls |-> "SmartStatus"],
       [name |-> <<"RC", " ", "STATUS">>,           cls |-> "RCStatus"],
       [name |-> <<"USB">>,                         cls |-> "USB"],
       [name |-> <<"UPGRADABLE", " ", "PACKAGES">>, cls |-> "UpgradablePackages"],
       [name |-> <<"PROCESSES">>,                   cls |-> "Process"],
       [name |-> <<"USERS">>,                       cls |-> "Users"],
       [name |-> <<"GROUPS">>,                      cls |-> "Groups"] >>

\* Variant of factory that looks the name up without regard to case.
factory_ignores_case(name) ==
    LET up == [i \in 1..Len(name) |-> IF name[i] = "cpu" THEN "CPU" ELSE name[i]]
    IN  IF \E i \in 1..Len(module_headers) : module_headers[i].name = up
        THEN module_headers[CHOOSE i \in 1..Len(module_headers) : module_headers[i].name = up].cls
        ELSE "Unknown"

\* the class factory(name) instantiates
factory(name) ==
    IF \E i \in 1..Len(module_headers) : module_headers[i].name = name
    THEN module_headers[CHOOSE i \in 1..Len(module_headers) : module_headers[i].name = name].cls
    ELSE "Unknown"

\* detect_module gives None, written NoModule, or an instance of a class
NoModule == ""

\* Variant of detect_module that leaves the colon in the label.
detect_module_keeps_colon(line) ==
    IF strip(line) = <<"STATUS", " ", "INFORMATION">> THEN "Header"
    ELSE IF strip(line) = <<"UPGRADABLE", " ", "PACKAGES">> THEN "UpgradablePackages"
    ELSE IF strip(line) = <<"ACCESS", " ", "INFORMATION">> THEN "Ignore"
    ELSE IF startswith(line, <<"#", " ">>)
         THEN factory(strip(replace(line, <<"#", " ">>)))
    ELSE NoModule

detect_module(line) ==
    IF strip(line) = <<"STATUS", " ", "INFORMATION">> THEN "Header"
    ELSE IF strip(line) = <<"UPGRADABLE", " ", "PACKAGES">> THEN "UpgradablePackages"
    ELSE IF strip(line) = <<"ACCESS", " ", "INFORMATION">> THEN "Ignore"
    ELSE IF startswith(line, <<"#", " ">>)
         THEN factory(strip(replace(replace(line, <<"#", " ">>), <<":">>)))
    ELSE NoModule

----------------------------------------------------------------------------
(* AlpLogParser *)

\* Variants of finalise_module with a slip in it: the isinstance test also
\* excludes Unknown; there is no isinstance test; finalise() is not called;
\* the record is inserted at the front of modules.
finalise_module_prepends(h, mods, id) ==
    IF h[id].kind # "Ignore"
    THEN [heap |-> [h EXCEPT ![id] = finalise(h[id])], modules |-> <<id>> \o mods]
    ELSE [heap |-> h, modules |-> mods]

finalise_module_skips_unknown(h, mods, id) ==
    IF h[id].kind \notin {"Ignore", "Unknown"}
    THEN [heap |-> [h EXCEPT ![id] = finalise(h[id])], modules |-> Append(mods, id)]
    ELSE [heap |-> h, modules |-> mods]

finalise_module_keeps_ignore(h, mods, id) ==
    [heap |-> [h EXCEPT ![id] = finalise(h[id])], modules |-> Append(mods, id)]

finalise_module_no_finalise(h, mods, id) ==
    IF h[id].kind # "Ignore"
    THEN [heap |-> h, modules |-> Append(mods, id)]
    ELSE [heap |-> h, modules |-> mods]

\* Variant of finalise_module that keeps only the records with a timestamp.
finalise_module_needs_timestamp(h, mods, id) ==
    IF h[id].kind # "Ignore" /\ h[id].timestamp # NoTs
    THEN [heap |-> [h EXCEPT ![id] = finalise(h[id])], modules |-> Append(mods, id)]
    ELSE [heap |-> h, modules |-> mods]

\* finalise_module on the object with identity id: the heap and the
\* modules list after the call
finalise_module(h, mods, id) ==
    IF h[id].kind # "Ignore"
    THEN [heap |-> [h EXCEPT ![id] = finalise(h[id])], modules |-> Append(mods, id)]
    ELSE [heap |-> h, modules |-> mods]

\* Variant of the test of line 453 that asks for two records.
has_first_after_second(mods) == Len(mods) > 1

\* line 453: self.modules and self.modules[0]
has_first(mods) == mods # <<>>

\* line 454: self.modules[0].timestamp
first_timestamp(h, mods) == h[mods[1]].timestamp

\* Variant of line 461 that leaves the new instance without a timestamp.
split_timestamp_unset(h, mods) == NoTs

\* line 461: self.modules[0].timestamp
split_timestamp(h, mods) == h[mods[1]].timestamp

\* history: the record was given the line
Fed(self, line) == IF strip(line) = <<>> THEN self ELSE [self EXCEPT !.fed = Append(self.fed, line)]

Init ==
    /\ heap = <<>>
    /\ modules = <<>>
    /\ current_module = None
    /\ status = "run"
    /\ err = ""
    /\ input = <<>>
    /\ splits = 0
    /\ last = [op |-> "init", prev |-> None]

\* One iteration of the for loop on a line that detect_module recognises
\* (lines 448-454).
NewSection(line, max) ==
    /\ status = "run"
    /\ Len(input) < max
    /\ detect_module(line) # NoModule
    /\ LET fin == IF current_module # None
                  THEN finalise_module(heap, modules, current_module)
                  ELSE [heap |-> heap, modules |-> modules]
           new == NewModule(detect_module(line))
       IN  /\ heap' = Append(fin.heap,
                             IF has_first(fin.modules)
                             THEN set_timestamp(new, first_timestamp(fin.heap, fin.modules))
                             ELSE new)
           /\ modules' = fin.modules
           /\ current_module' = Len(heap) + 1
    /\ input' = Append(input, line)
    /\ last' = [op |-> "header", prev |-> current_module]
    /\ UNCHANGED <<status, err, splits>>

\* One iteration of the for loop on any other line (lines 455-461).
IngestLine(line, max) ==
    /\ status = "run"
    /\ Len(input) < max
    /\ detect_module(line) = NoModule
    /\ input' = Append(input, line)
    /\ IF current_module = None
       THEN /\ last' = [op |-> "skip", prev |-> None]
            /\ UNCHANGED <<heap, modules, current_module, status, err, splits>>
       ELSE LET r == add_line(heap[current_module], line)
            IN  IF r.exc # ""
                THEN /\ status' = "error"
                     /\ err' = r.exc
                     /\ last' = [op |-> "raise", prev |-> current_module]
                     /\ UNCHANGED <<heap, modules, current_module, splits>>
                ELSE IF r.split
                THEN LET fin == finalise_module([heap EXCEPT ![current_module] = r.self],
                                                modules, current_module)
                     IN  /\ splits' = splits + 1
                         /\ last' = [op |-> "split", prev |-> current_module]
                         /\ IF fin.modules = <<>>
                            THEN /\ status' = "error"
                                 /\ err' = "IndexError"
                                 /\ UNCHANGED <<heap, modules, current_module>>
                            ELSE /\ heap' = Append(fin.heap,
                                        set_timestamp([Fed(r.new, line) EXCEPT !.origin = "split"],
                                                      split_timestamp(fin.heap, fin.modules)))
                                 /\ modules' = fin.modules
                                 /\ current_module' = Len(heap) + 1
                                 /\ UNCHANGED <<status, err>>
                ELSE /\ heap' = [heap EXCEPT ![current_module] = Fed(r.self, line)]
                     /\ last' = [op |-> "ingest", prev |-> current_module]
                     /\ UNCHANGED <<modules, current_module, status, err, splits>>

\* The end of the file: the call of finalise_module after the loop (line 462).
\* With current_module still None, isinstance(None, Ignore) is false and
\* None.finalise() raises AttributeError.
EndOfInput ==
    /\ status = "run"
    /\ last' = [op |-> "eof", prev |-> current_module]
    /\ IF current_module = None
       THEN /\ status' = "error"
            /\ err' = "AttributeError"
            /\ UNCHANGED <<heap, modules>>
       ELSE LET fin == finalise_module(heap, modules, current_module)
            IN  /\ heap' = fin.heap
                /\ modules' = fin.modules
                /\ status' = "done"
                /\ err' = ""
    /\ UNCHANGED <<current_module, input, splits>>

\* AlpLogParser(filepath) on a file of at most max lines, each from lines
Parse(lines, max) ==
    \/ \E line \in lines : NewSection(line, max)
    \/ \E line \in lines : IngestLine(line, max)
    \/ EndOfInput

----------------------------------------------------------------------------
(* The files read *)

L(s) == s \o <<"\n">>

Line_status    == L(<<"STATUS", " ", "INFORMATION">>)
Line_access    == L(<<"ACCESS", " ", "INFORMATION">>)
Line_cpu       == L(<<"#", " ", "CPU">>)
Line_foo       == L(<<"#", " ", "FOO", ":">>)
Line_date      == L(<<"date", ":", " ", "2020", "-", "05", "-", "17">>)
Line_time      == L(<<"time", ":", " ", "12", ":", "34", ":", "56">>)
Line_proc0     == L(<<"processor", " ", ":", " ", "0">>)
Line_proc1     == L(<<"processor", " ", ":", " ", "1">>)
Line_model     == L(<<"model", " ", ":", " ", "42">>)
Line_text      == L(<<"pi", " ", "ttyS0">>)
Line_blank     == L(<<" ">>)

\* Files of sections of several kinds, with and without content.
MaxLines == 5

FileLines == {Line_status, Line_access, Line_cpu, Line_foo, Line_proc0, Line_text, Line_blank}

Next == Parse(FileLines, MaxLines)

Spec == Init /\ [][Next]_vars

\* Files with a Header section that has a date and a time.
MaxTimeLines == 6

TimeLines == {Line_status, Line_access, Line_cpu, Line_date, Line_time, Line_proc0}

NextTime == Parse(TimeLines, MaxTimeLines)

SpecTime == Init /\ [][NextTime]_vars

\* Files with CPU sections.
MaxCPULines == 5

CPULines == {Line_status, Line_cpu, Line_proc0, Line_proc1, Line_model, Line_blank}

NextCPU == Parse(CPULines, MaxCPULines)

SpecCPU == Init /\ [][NextCPU]_vars

----------------------------------------------------------------------------
(* Properties of the parse driver *)

\* the i-th record of the output sequence
Rec(i) == heap[modules[i]]

IsHeaderLine(line) == detect_module(line) # NoModule

IsKeptHeaderLine(line) == detect_module(line) \notin {NoModule, "Ignore"}

\* the header lines read whose kind is not Ignore, in input order
KeptHeaders == SelectSeq(input, IsKeptHeaderLine)

\* C1: when parsing has returned and no line of the input triggered an
\* in-section split, the output holds exactly one record per section-header
\* line whose kind is not Ignore, in the order of those lines (the records
\* were created in that order), the i-th of the kind the i-th line resolves to.
C1_RecordsInHeaderOrder ==
    (status = "done" /\ splits = 0) =>
        /\ Len(modules) = Len(KeptHeaders)
        /\ \A i \in 1..Len(modules) :
              /\ Rec(i).kind = detect_module(KeptHeaders[i])
              /\ Rec(i).origin = "header"
              /\ i > 1 => modules[i - 1] < modules[i]

\* a file with an Ignore section between three sections of different kinds,
\* parsed to the end without a split
C1_Witness ==
    /\ status = "done"
    /\ splits = 0
    /\ Len(modules) = 3
    /\ Len(input) = 4
    /\ detect_module(input[2]) = "Ignore"
    /\ Rec(1).kind # Rec(2).kind /\ Rec(2).kind # Rec(3).kind

\* C4: in every reachable state the output sequence holds no record of kind
\* Ignore.
C4_NoIgnoreInOutput == \A i \in 1..Len(modules) : Rec(i).kind # "Ignore"

\* a parsed file that begins and ends with an Ignore section, has another
\* section between them, and whose first Ignore section was given a line
C4_Witness ==
    /\ status = "done"
    /\ Len(input) >= 4
    /\ detect_module(input[1]) = "Ignore"
    /\ detect_module(input[Len(input)]) = "Ignore"
    /\ modules # <<>>
    /\ heap[1].kind = "Ignore" /\ heap[1].fed # <<>>

\* C5: a step of the driver never changes a record that is already in the
\* output and never removes or reorders one; a record it appends was the
\* current record, had not been finalised before the step, and is in the
\* output finalised exactly once and untouched since; and while the loop
\* runs the current record is not one of the output.
C5_FinalisedOnceThenFrozen ==
    [][ /\ Len(modules') >= Len(modules)
        /\ \A i \in 1..Len(modules) :
              /\ modules'[i] = modules[i]
              /\ heap'[modules[i]] = heap[modules[i]]
        /\ \A i \in (Len(modules) + 1)..Len(modules') :
              /\ modules'[i] = current_module
              /\ heap[modules'[i]].nfin = 0
        /\ \A i \in 1..Len(modules') :
              /\ heap'[modules'[i]].nfin = 1
              /\ ~heap'[modules'[i]].late
        /\ status' = "run" => \A i \in 1..Len(modules') : modules'[i] # current_module'
      ]_vars

\* the output holds a record that was given lines and one made by a split,
\* and the driver is reading on
C5_Witness ==
    /\ status = "run"
    /\ Len(modules) >= 2
    /\ \E i \in 1..Len(modules) : Len(Rec(i).fed) >= 2
    /\ \E i \in 1..Len(modules) : Rec(i).origin = "split"

\* C6: for an input without any section-header line the driver ends without
\* an error and with an empty output sequence.
C6_NoHeaderReturnsEmpty ==
    (status # "run" /\ \A i \in 1..Len(input) : ~IsHeaderLine(input[i])) =>
        (status = "done" /\ err = "" /\ modules = <<>>)

----------------------------------------------------------------------------
(* Timestamp propagation *)

\* a Header record that was given a date line and a time line
HasDateTime(r) == r.kind = "Header" /\ Has(r.items, K_date) /\ Has(r.items, K_time)

\* C2 as stated: after parsing, whenever the output holds a Header record with
\* a date and a time, every record of another kind has that record's
\* timestamp, wherever the Header section stands in the file.
C2_AnyHeaderPosition ==
    status = "done" =>
        \A i, j \in 1..Len(modules) :
            (HasDateTime(Rec(i)) /\ Rec(j).kind # "Header") =>
                Rec(j).timestamp = Rec(i).timestamp

\* C2, amended: when the first record of the output is a Header record with a
\* date and a time (the Header section is the first section that is not
\* ignored), its timestamp is set and every record of another kind has it.
C2_FirstHeaderTimestamp ==
    (modules # <<>> /\ HasDateTime(Rec(1))) =>
        /\ Rec(1).timestamp # NoTs
        /\ \A j \in 1..Len(modules) :
              Rec(j).kind # "Header" => Rec(j).timestamp = Rec(1).timestamp

\* a parsed file whose Header section comes first and has a date and a time,
\* followed by a section that was split
C2_Witness ==
    /\ status = "done"
    /\ Len(modules) >= 3
    /\ HasDateTime(Rec(1))
    /\ Rec(2).kind = "CPU" /\ Rec(2).origin = "header"
    /\ Rec(3).kind = "CPU" /\ Rec(3).origin = "split"

\* C7: after a line whose add_line returned a new instance, the loop is still
\* running, the record that was current is the last of the output and is
\* finalised, the current record is the new instance (of the same kind), and
\* its timestamp is the one of the record it was split from.
C7_SplitInheritsTimestamp ==
    last.op = "split" =>
        /\ status = "run"
        /\ modules # <<>>
        /\ modules[Len(modules)] = last.prev
        /\ heap[last.prev].nfin = 1
        /\ current_module = Len(heap)
        /\ current_module # last.prev
        /\ heap[current_module].origin = "split"
        /\ heap[current_module].nfin = 0
        /\ heap[current_module].kind = heap[last.prev].kind
        /\ heap[current_module].timestamp = heap[last.prev].timestamp

\* a split of a record that carries a timestamp
C7_Witness ==
    /\ last.op = "split"
    /\ heap[last.prev].timestamp # NoTs
    /\ heap[current_module].timestamp # NoTs

\* C8 as stated: whenever parsing returns a non-empty output, its first record
\* is a Header record, and the records of other kinds have its timestamp.
C8_FirstIsAlwaysHeader ==
    (status = "done" /\ modules # <<>>) =>
        /\ Rec(1).kind = "Header"
        /\ \A j \in 1..Len(modules) :
              Rec(j).kind # "Header" => Rec(j).timestamp = Rec(1).timestamp

\* C8, amended: when the first section-header line of the input whose kind is
\* not Ignore is the STATUS INFORMATION line, the first record of a non-empty
\* output is a Header record, and the records of other kinds have its timestamp.
C8_FirstIsHeaderWhenFirstSection ==
    (modules # <<>> /\ KeptHeaders # <<>> /\ detect_module(KeptHeaders[1]) = "Header") =>
        /\ Rec(1).kind = "Header"
        /\ \A j \in 1..Len(modules) :
              Rec(j).kind # "Header" => Rec(j).timestamp = Rec(1).timestamp

\* a parsed file that starts with an Ignore section, then the Header section
\* with a date and a time, then another section
C8_Witness ==
    /\ status = "done"
    /\ Len(input) >= 2
    /\ detect_module(input[1]) = "Ignore"
    /\ detect_module(input[2]) = "Header"
    /\ Len(modules) >= 2
    /\ Rec(1).timestamp # NoTs
    /\ Rec(2).kind # "Header"

----------------------------------------------------------------------------
(* In-section splits of CPU sections *)

KeyOf(line) == split_first_colon(strip(line)).key

DataOf(line) == split_first_colon(strip(line)).data

IsProcessorLine(line) == KeyOf(line) = <<"processor">>

\* the processor lines a record was given
ProcessorLines(r) == SelectSeq(r.fed, IsProcessorLine)

\* the keys of the fields of a record (the raw-line bucket aside)
FieldKeys(r) == {r.items[i].k : i \in 1..Len(r.items)} \ {K_lines}

\* the keys of the lines a record was given
FedKeys(r) == {StrKey(KeyOf(r.fed[i])) : i \in 1..Len(r.fed)}

\* the records of the output and, while the loop runs, the current one
Live ==
    IF status = "run" /\ current_module # None THEN Append(modules, current_module) ELSE modules

RECURSIVE ConcatFed(_)
ConcatFed(ids) == IF ids = <<>> THEN <<>> ELSE heap[Head(ids)].fed \o ConcatFed(Tail(ids))

IsContentLine(line) == ~IsHeaderLine(line) /\ strip(line) # <<>>

\* the non-blank section lines read: those after the first header line
ContentLines ==
    IF \A i \in 1..Len(input) : ~IsHeaderLine(input[i]) THEN <<>>
    ELSE LET p == CHOOSE i \in 1..Len(input) :
                     IsHeaderLine(input[i]) /\ \A k \in 1..(i - 1) : ~IsHeaderLine(input[k])
         IN  SelectSeq(SubSeq(input, p + 1, Len(input)), IsContentLine)

\* what C3 says of every record, but for the lines before the processor line
CPURecordsOwnTheirLines ==
    /\ ConcatFed(Live) = ContentLines
    /\ \A i \in 1..Len(modules) :
          (Rec(i).kind = "CPU" /\ ProcessorLines(Rec(i)) # <<>>) =>
              /\ Len(ProcessorLines(Rec(i))) = 1
              /\ Get(Rec(i).items, K_processor) = IntVal(IntOf(DataOf(ProcessorLines(Rec(i))[1])))
              /\ FieldKeys(Rec(i)) = FedKeys(Rec(i))

\* C3 as stated: the lines of the CPU sections go to the records in input
\* order, none lost; every CPU record with a processor line has exactly one,
\* holds its value, has exactly the fields of the lines it was given, and
\* those lines start with its processor line.
C3_OnlyLinesFromOwnProcessorLine ==
    status # "error" =>
        /\ CPURecordsOwnTheirLines
        /\ \A i \in 1..Len(modules) :
              (Rec(i).kind = "CPU" /\ ProcessorLines(Rec(i)) # <<>>) =>
                  IsProcessorLine(Rec(i).fed[1])

\* C3, amended: as stated, except that the first record of a section (the one
\* the section header created) also holds the fields of the lines that
\* precede the first processor line.
C3_OneRecordPerProcessorLine ==
    status # "error" =>
        /\ CPURecordsOwnTheirLines
        /\ \A i \in 1..Len(modules) :
              (Rec(i).kind = "CPU" /\ ProcessorLines(Rec(i)) # <<>>) =>
                  (IsProcessorLine(Rec(i).fed[1]) \/ Rec(i).origin = "header")

\* a parsed CPU section with two processor lines of different values, the
\* first followed by another line
C3_Witness ==
    /\ status = "done"
    /\ Len(modules) = 2
    /\ Rec(1).kind = "CPU" /\ Rec(1).origin = "header" /\ Len(Rec(1).fed) = 2
    /\ IsProcessorLine(Rec(1).fed[1])
    /\ Rec(2).kind = "CPU" /\ Rec(2).origin = "split"
    /\ Get(Rec(1).items, K_processor) # Get(Rec(2).items, K_processor)

----------------------------------------------------------------------------
(* Header detection and the kind registry *)

\* the labels of the registry table of the specification
Label_cpu       == <<"CPU">>
Label_memory    == <<"MEMORY">>
Label_network   == <<"NETWORK">>
Label_ipaddress == <<"EXTERNAL", " ", "IP", " ", "ADDRESS">>
Label_disks     == <<"DISKS">>
Label_mount     == <<"MOUNT">>
Label_zfspools  == <<"ZFS", " ", "POOLS">>
Label_smart     == <<"SMART", " ", "STATUS">>
Label_rcstatus  == <<"RC", " ", "STATUS">>
Label_usb       == <<"USB">>
Label_upgrade   == <<"UPGRADABLE", " ", "PACKAGES">>
Label_processes == <<"PROCESSES">>
Label_users     == <<"USERS">>
Label_groups    == <<"GROUPS">>

RegistryLabels ==
    {Label_cpu, Label_memory, Label_network, Label_ipaddress, Label_disks, Label_mount,
     Label_zfspools, Label_smart, Label_rcstatus, Label_usb, Label_upgrade,
     Label_processes, Label_users, Label_groups}

\* labels that are not in that table
OtherLabels ==
    {<<"IGNORE">>, <<"UNKNOWN">>, <<"FOO">>, <<"cpu">>, <<"Users">>,
     <<"STATUS", " ", "INFORMATION">>, <<"ZFS">>}

\* the kind the specification gives a label
RegistryKind(label) ==
    CASE label = Label_cpu       -> "CPU"
      [] label = Label_memory    -> "Memory"
      [] label = Label_network   -> "Network"
      [] label = Label_ipaddress -> "IPAddress"
      [] label = Label_disks     -> "Disks"
      [] label = Label_mount     -> "Mount"
      [] label = Label_zfspools  -> "ZFSPools"
      [] label = Label_smart     -> "SmartStatus"
      [] label = Label_rcstatus  -> "RCStatus"
      [] label = Label_usb       -> "USB"
      [] label = Label_upgrade   -> "UpgradablePackages"
      [] label = Label_processes -> "Process"
      [] label = Label_users     -> "Users"
      [] label = Label_groups    -> "Groups"
      [] OTHER                   -> "Unknown"

\* the line '# <LABEL>', with or without the trailing colon
HeaderLine(label, colon) == L(<<"#", " ">> \o label \o (IF colon THEN <<":">> ELSE <<>>))

Line_upgrade       == L(Label_upgrade)
Line_upgrade_blank == L(<<" ">> \o Label_upgrade \o <<" ">>)
Line_upgrade_colon == L(Label_upgrade \o <<":">>)
Line_nospace       == L(<<"#", "CPU">>)

\* Files of header lines of every form, and two lines that are none.
MaxHeaderLines == 2

HeaderLines ==
    {HeaderLine(label, colon) : label \in RegistryLabels \cup OtherLabels, colon \in BOOLEAN}
    \cup {Line_status, Line_access, Line_upgrade, Line_upgrade_blank, Line_upgrade_colon,
          Line_nospace, Line_text}

NextHeaders == Parse(HeaderLines, MaxHeaderLines)

SpecHeaders == Init /\ [][NextHeaders]_vars

\* the line the last loop iteration read is this one
JustRead(line) == input # <<>> /\ last.op # "eof" /\ input[Len(input)] = line

\* the last loop iteration started a section of this kind and the loop goes on
Started(kind) ==
    /\ last.op = "header"
    /\ status = "run"
    /\ current_module = Len(heap)
    /\ heap[current_module].kind = kind
    /\ heap[current_module].fed = <<>>

\* when parsing has returned, a record of this kind that was created is in the output
InOutputWhenDone(kind) ==
    status = "done" =>
        \A id \in 1..Len(heap) :
            heap[id].kind = kind => \E i \in 1..Len(modules) : modules[i] = id

\* C9 as stated: a '# <LABEL>' line starts a section of the kind the registry
\* table gives the label, and of kind Unknown for every label that is not one
\* of the fourteen; the loop goes on, and the Unknown records are in the
\* output when parsing has returned.
C9_OtherLabelsAreUnknown ==
    /\ \A label \in RegistryLabels \cup OtherLabels : \A colon \in BOOLEAN :
          JustRead(HeaderLine(label, colon)) => Started(RegistryKind(label))
    /\ InOutputWhenDone("Unknown")

\* C9, amended: as stated, except that the label IGNORE starts a section of
\* kind Ignore.
C9_OtherLabelsButIgnoreAreUnknown ==
    /\ \A label \in RegistryLabels \cup OtherLabels : \A colon \in BOOLEAN :
          JustRead(HeaderLine(label, colon)) =>
              Started(IF label = <<"IGNORE">> THEN "Ignore" ELSE RegistryKind(label))
    /\ InOutputWhenDone("Unknown")

\* a parsed file with a section of an unmatched label that was given a line:
\* its record is in the output, with the line in its bucket
C9_Witness ==
    /\ status = "done"
    /\ input = <<HeaderLine(<<"cpu">>, TRUE), Line_text>>
    /\ Len(modules) = 1
    /\ Rec(1).kind = "Unknown"
    /\ Get(Rec(1).items, K_lines).l = <<Line_text>>

\* C10: the bare line STATUS INFORMATION starts a Header section, the bare
\* line ACCESS INFORMATION an Ignore section, and the line UPGRADABLE PACKAGES
\* (bare, or as '# UPGRADABLE PACKAGES' with or without the colon) a section
\* of kind UpgradablePackages.
C10_SentinelLines ==
    /\ JustRead(Line_status) => Started("Header")
    /\ JustRead(Line_access) => Started("Ignore")
    /\ JustRead(Line_upgrade) => Started("UpgradablePackages")
    /\ JustRead(Line_upgrade_blank) => Started("UpgradablePackages")
    /\ JustRead(HeaderLine(Label_upgrade, FALSE)) => Started("UpgradablePackages")
    /\ JustRead(HeaderLine(Label_upgrade, TRUE)) => Started("UpgradablePackages")

\* the bare sentinel, then the generic header with the colon: two records of
\* kind UpgradablePackages
C10_Witness ==
    /\ input = <<Line_upgrade, HeaderLine(Label_upgrade, TRUE)>>
    /\ Len(modules) = 1
    /\ Rec(1).kind = "UpgradablePackages"
    /\ Started("UpgradablePackages")

----------------------------------------------------------------------------
(* Blank lines *)

Line_newline   == <<"\n">>
Line_indent    == L(<<"    ">>)
Line_netdecl   == L(<<"1", ":", " ", "eth0", ":", " ", "<UP>">>)
Line_netdecl2  == L(<<"2", ":", " ", "wlan0", ":", " ", "<DOWN>">>)
Line_inet      == <<"    ">> \o L(<<"inet", " ", "10.0.0.1/24">>)
Line_inet6     == <<"    ">> \o L(<<"inet6", " ", "fe80::1/64">>)
Line_mem       == L(<<"Mem", ":", " ", "1000", " ", "200", " ", "800", " ", "5", " ", "50", " ", "950">>)
Line_swap      == L(<<"Swap", ":", " ", "500", " ", "0", " ", "500">>)

\* the lines of a file that are empty or hold only blanks
BlankLines == {Line_newline, Line_blank, Line_indent}

\* the header lines, one for each of the seventeen kinds
KindHeaders ==
    {HeaderLine(label, TRUE) : label \in RegistryLabels}
    \cup {Line_status, Line_access, Line_foo}

\* Files of sections of every kind, with content and blank lines.
MaxBlankLines == 3

BlankFileLines ==
    KindHeaders \cup {Line_newline, Line_blank, Line_text, Line_inet}

NextBlank == Parse(BlankFileLines, MaxBlankLines)

SpecBlank == Init /\ [][NextBlank]_vars

\* C11: for every record there is, of whatever kind and in whatever state
\* (current, finalised, in the output), add_line on a line that is empty or
\* holds only blanks returns None and leaves the record as it is (fields,
\* bucket, private list, timestamp); detect_module gives None for such a line;
\* and a loop iteration that reads one changes neither a record, nor the
\* output, nor the current record, and does not end the loop.
C11_BlankLinesAreNoOps ==
    /\ [](\A b \in BlankLines \cup {<<>>} :
             /\ detect_module(b) = NoModule
             /\ \A id \in 1..Len(heap) : add_line(heap[id], b) = Ret(heap[id]))
    /\ [][ (Len(input') > Len(input) /\ input'[Len(input')] \in BlankLines) =>
               /\ UNCHANGED <<heap, modules, current_module, status, err, splits>>
               /\ last'.op \in {"skip", "ingest"}
         ]_vars

\* a blank line was read in a section whose record holds something
C11_Witness ==
    /\ input # <<>>
    /\ input[Len(input)] \in BlankLines
    /\ last.op = "ingest"
    /\ current_module # None
    /\ heap[current_module].fed # <<>>
    /\ heap[current_module].kind \in {"Unknown", "Network", "Users"}

----------------------------------------------------------------------------
(* Memory sections *)

Line_mem_short == L(<<"Mem", ":", " ", "1000", " ", "200">>)

\* Files with Memory sections.
MaxMemoryLines == 4

MemoryLines ==
    {HeaderLine(Label_memory, TRUE), Line_mem, Line_swap, Line_mem_short, Line_text, Line_blank}

NextMemory == Parse(MemoryLines, MaxMemoryLines)

SpecMemory == Init /\ [][NextMemory]_vars

\* a line with something on it that starts with neither 'Mem' nor 'Swap'
IsOtherMemoryLine(line) ==
    /\ strip(line) # <<>>
    /\ ~first_word_in(line, MemWords)
    /\ ~first_word_in(line, SwapWords)

\* the last loop iteration gave the line it read to a record of this kind
GaveLineTo(kind) ==
    /\ last.op \in {"ingest", "raise", "split"}
    /\ heap[last.prev].kind = kind

\* C12: when the loop gives a Memory record a non-blank line that starts with
\* neither 'Mem' nor 'Swap', add_line raises and the exception ends the parse.
C12_OtherMemoryLineRaises ==
    (GaveLineTo("Memory") /\ IsOtherMemoryLine(input[Len(input)])) =>
        (status = "error" /\ err # "" /\ last.op = "raise")

Range(seq) == {seq[i] : i \in 1..Len(seq)}

\* C17: a Memory record that was given the line 'Mem: 1000 200 800 5 50 950'
\* and the line 'Swap: 500 0 500' has the two fields Mem and Swap, each the
\* sub-dict of its columns with those integers; to_dict has exactly the nine
\* keys '<field> - <column>' with those integers; and to_table_header lists
\* the keys of to_dict, in the same order.
C17_MemoryFieldsAndFlatMapping ==
    \A id \in 1..Len(heap) :
        (heap[id].kind = "Memory" /\ {Line_mem, Line_swap} \subseteq Range(heap[id].fed)) =>
            LET items == heap[id].items
                flat  == Memory_to_dict(items)
            IN  /\ to_table_header(items) \in {<<StrKey(<<"Mem">>), StrKey(<<"Swap">>)>>,
                                               <<StrKey(<<"Swap">>), StrKey(<<"Mem">>)>>}
                /\ Get(items, StrKey(<<"Mem">>)) =
                      DictVal(<< [k |-> "total", n |-> 1000], [k |-> "used", n |-> 200],
                                 [k |-> "free", n |-> 800], [k |-> "shared", n |-> 5],
                                 [k |-> "buff/cache", n |-> 50], [k |-> "available", n |-> 950] >>)
                /\ Get(items, StrKey(<<"Swap">>)) =
                      DictVal(<< [k |-> "total", n |-> 500], [k |-> "used", n |-> 0],
                                 [k |-> "free", n |-> 500] >>)
                /\ Range(flat) =
                      { [k |-> <<"Mem", " ", "-", " ", "total">>, n |-> 1000],
                        [k |-> <<"Mem", " ", "-", " ", "used">>, n |-> 200],
                        [k |-> <<"Mem", " ", "-", " ", "free">>, n |-> 800],
                        [k |-> <<"Mem", " ", "-", " ", "shared">>, n |-> 5],
                        [k |-> <<"Mem", " ", "-", " ", "buff/cache">>, n |-> 50],
                        [k |-> <<"Mem", " ", "-", " ", "available">>, n |-> 950],
                        [k |-> <<"Swap", " ", "-", " ", "total">>, n |-> 500],
                        [k |-> <<"Swap", " ", "-", " ", "used">>, n |-> 0],
                        [k |-> <<"Swap", " ", "-", " ", "free">>, n |-> 500] }
                /\ Len(flat) = 9
                /\ Memory_to_table_header(items) = [i \in 1..Len(flat) |-> flat[i].k]

\* a parsed Memory section that was given the Swap line and then the Mem line
C17_Witness ==
    /\ status = "done"
    /\ Len(modules) = 1
    /\ Rec(1).kind = "Memory"
    /\ Rec(1).fed = <<Line_swap, Line_mem>>

----------------------------------------------------------------------------
(* The timestamp of the Header record *)

\* C13: a Header record that was given the line 'date: 2020-05-17' and the
\* line 'time: 12:34:56', in either order, has the timestamp 2020-05-17
\* 12:34:56: year, month, day, hour, minute and second as written.
C13_TimestampAsWritten ==
    \A id \in 1..Len(heap) :
        (heap[id].kind = "Header" /\ {Line_date, Line_time} \subseteq Range(heap[id].fed)) =>
            heap[id].timestamp = <<2020, 5, 17, 12, 34, 56>>

\* no Header record has both a date and a time, and there is a Header record
NoHeaderHasDateTime ==
    /\ \E id \in 1..Len(heap) : heap[id].kind = "Header"
    /\ \A id \in 1..Len(heap) : heap[id].kind = "Header" => ~HasDateTime(heap[id])

\* C14: when the Header sections of the input lack the date line or the time
\* line, no record ever gets a timestamp, and the parse ends without an error
\* with every record that is not of kind Ignore in the output, the ones made
\* by splits included.
C14_MissingTimestampStaysUnset ==
    NoHeaderHasDateTime =>
        /\ \A id \in 1..Len(heap) : heap[id].timestamp = NoTs
        /\ status # "run" =>
              /\ status = "done" /\ err = ""
              /\ \A id \in 1..Len(heap) :
                    heap[id].kind # "Ignore" => \E i \in 1..Len(modules) : modules[i] = id

\* a parsed file whose Header section has a date but no time, followed by a
\* CPU section that was split
C14_Witness ==
    /\ status = "done"
    /\ NoHeaderHasDateTime
    /\ Len(modules) = 3
    /\ Rec(1).kind = "Header" /\ Has(Rec(1).items, K_date)
    /\ Rec(2).kind = "CPU"
    /\ Rec(3).kind = "CPU" /\ Rec(3).origin = "split"

----------------------------------------------------------------------------
(* UpgradablePackages sections *)

Line_separator == L(<<"-", "-", "-", "-">>)
Line_installed == L(<<"Installed", ":", " ", "2">>)
Line_dashed    == L(<<" ", "-", "rc1">>)

\* Files with UpgradablePackages sections.
MaxPackageLines == 5

PackageLines ==
    {Line_upgrade, HeaderLine(Label_upgrade, TRUE), Line_upgrade_colon, Line_separator,
     Line_installed, Line_dashed, Line_text, Line_blank}

NextPackages == Parse(PackageLines, MaxPackageLines)

SpecPackages == Init /\ [][NextPackages]_vars

\* a line that starts with none of 'UPGRADABLE PACKAGES', '-' and 'Installed'
IsPackageLine(line) ==
    /\ ~startswith(line, <<"UPGRADABLE", " ", "PACKAGES">>)
    /\ Head(line) # "-"
    /\ Head(line) # "Installed"

\* the decimal text of a count, the empty text for zero
CountText(n) ==
    CASE n = 0 -> <<>> [] n = 1 -> <<"1">> [] n = 2 -> <<"2">> [] n = 3 -> <<"3">>
      [] n = 4 -> <<"4">> [] n = 5 -> <<"5">> [] n = 6 -> <<"6">>

K_count == StrKey(<<"count">>)

\* C15: an UpgradablePackages record has no field 'count' before finalise;
\* after it, 'count' is the decimal text of the number of non-blank lines the
\* record was given that start with none of 'UPGRADABLE PACKAGES', '-' and
\* 'Installed', and the empty text when there is none; it is the only field.
C15_CountOfPackageLines ==
    \A id \in 1..Len(heap) :
        heap[id].kind = "UpgradablePackages" =>
            LET r == heap[id]
                n == Len(SelectSeq(r.fed, IsPackageLine))
            IN  /\ Len(r.acc) = n
                /\ r.nfin = 0 => FieldKeys(r) = {}
                /\ r.nfin > 0 =>
                      /\ FieldKeys(r) = {K_count}
                      /\ Get(r.items, K_count) = TextVal(CountText(n))

\* two parsed sections: the first was given two package lines and a
\* separator, the second no package line
C15_Witness ==
    /\ status = "done"
    /\ Len(modules) = 2
    /\ Rec(1).kind = "UpgradablePackages" /\ Rec(2).kind = "UpgradablePackages"
    /\ Get(Rec(1).items, K_count) = TextVal(<<"2">>)
    /\ Line_separator \in Range(Rec(1).fed)
    /\ Get(Rec(2).items, K_count) = TextVal(<<>>)

----------------------------------------------------------------------------
(* Users and Groups sections *)

\* str(i) of an index
IndexText(i) ==
    CASE i = 0 -> <<"0">> [] i = 1 -> <<"1">> [] i = 2 -> <<"2">> [] i = 3 -> <<"3">>
      [] i = 4 -> <<"4">> [] i = 5 -> <<"5">>

\* C16: a Users or Groups record has no field before finalise; after it, a
\* record that was given m non-blank lines has exactly the m fields with the
\* text keys "0", "1", ..., and the field str(i) is the text of the i-th line
\* as it was given.
C16_FieldsAreIndexedLines ==
    \A id \in 1..Len(heap) :
        heap[id].kind \in {"Users", "Groups"} =>
            LET r == heap[id]
            IN  /\ r.nfin = 0 => FieldKeys(r) = {}
                /\ r.nfin > 0 =>
                      /\ FieldKeys(r) = {StrKey(IndexText(i - 1)) : i \in 1..Len(r.fed)}
                      /\ \A i \in 1..Len(r.fed) :
                            /\ Has(r.items, StrKey(IndexText(i - 1)))
                            /\ Get(r.items, StrKey(IndexText(i - 1))) = TextVal(r.fed[i])

----------------------------------------------------------------------------
(* In-section splits of Network sections *)

\* Files with Network sections.
MaxNetworkLines == 5

NetworkLines ==
    {HeaderLine(Label_network, TRUE), Line_netdecl, Line_netdecl2,
     Line_inet, Line_inet6, Line_blank}

NextNetwork == Parse(NetworkLines, MaxNetworkLines)

SpecNetwork == Init /\ [][NextNetwork]_vars

IsIndented(line) == Head(line) = "    "

IsDeclaringLine(line) == ~IsIndented(line)

\* what the two declaring lines of the files declare
Declared(line) ==
    IF line = Line_netdecl
    THEN [index |-> 1, name |-> <<"eth0">>, name_other |-> <<"<UP>">>]
    ELSE [index |-> 2, name |-> <<"wlan0">>, name_other |-> <<"<DOWN>">>]

\* the place of the first declaring line among the lines a record was given
\* (0 when there is none)
DeclaredAt(r) ==
    IF \A i \in 1..Len(r.fed) : IsIndented(r.fed[i]) THEN 0
    ELSE CHOOSE i \in 1..Len(r.fed) :
            IsDeclaringLine(r.fed[i]) /\ \A k \in 1..(i - 1) : IsIndented(r.fed[k])

Stripped(lines) == [i \in 1..Len(lines) |-> strip(lines[i])]

\* C18: unless a line raised, the non-blank lines of the sections go to the
\* records in input order, none lost; a Network record was given at most one
\* non-indented line, a record made by a split begins with it, and only the
\* record the section header made can have none (so a section with n >= 1
\* non-indented lines gives n records, in input order); a record with a
\* declaring line has the index, name and name_other of that line, and its
\* bucket holds, in order, the indented lines it was given after it.
C18_OneRecordPerDeclaringLine ==
    status # "error" =>
        /\ ConcatFed(Live) = ContentLines
        /\ \A k \in 1..Len(Live) :
              heap[Live[k]].kind = "Network" =>
                  LET r == heap[Live[k]]
                      p == DeclaredAt(r)
                  IN  /\ Len(SelectSeq(r.fed, IsDeclaringLine)) <= 1
                      /\ r.origin = "split" => p = 1
                      /\ p = 0 => ~Has(r.items, K_name)
                      /\ p > 0 =>
                            /\ Get(r.items, StrKey(<<"index">>)) = IntVal(Declared(r.fed[p]).index)
                            /\ Get(r.items, K_name) = TextVal(Declared(r.fed[p]).name)
                            /\ Get(r.items, StrKey(<<"name_other">>)) = TextVal(Declared(r.fed[p]).name_other)
                            /\ Get(r.items, K_lines).l = Stripped(SubSeq(r.fed, p + 1, Len(r.fed)))

\* a parsed Network section with two interfaces, each with an indented line
C18_Witness ==
    /\ status = "done"
    /\ Len(modules) = 2
    /\ Rec(1).kind = "Network" /\ Rec(1).origin = "header"
    /\ Rec(1).fed = <<Line_netdecl, Line_inet>>
    /\ Rec(2).kind = "Network" /\ Rec(2).origin = "split"
    /\ Rec(2).fed = <<Line_netdecl2, Line_inet6>>
    /\ Get(Rec(2).items, K_lines).l = <<strip(Line_inet6)>>

----------------------------------------------------------------------------
(* In-section splits of ZFSPools sections *)

\* the tokens, with one blank between them, as a line
RECURSIVE Row(_)
Row(tokens) ==
    IF Len(tokens) = 1 THEN L(tokens) ELSE <<Head(tokens), " ">> \o Row(Tail(tokens))

Line_zfs_name  == Row(<<"NAME", "SIZE", "ALLOC", "FREE", "CKPOINT", "EXPANDSZ", "FRAG", "CAP",
                        "DEDUP", "HEALTH", "ALTROOT">>)
Line_rpool     == Row(<<"rpool", "928G", "1.2G", "927G", "-", "-", "0%", "0%", "1.00x", "ONLINE", "-">>)
Line_pool2     == Row(<<"pool2", "7T", "3T", "4T", "-", "-", "5%", "42%", "1.00x", "DEGRADED", "/mnt">>)
Line_pool_ten  == Row(<<"zpool", "7T", "3T", "4T", "-", "-", "5%", "42%", "1.00x", "ONLINE">>)
Line_tank      == Row(<<"tank", "7T", "3T", "4T", "-", "-", "5%", "42%", "1.00x", "ONLINE", "-">>)
Line_namepool  == Row(<<"NAMEpool", "7T", "3T", "4T", "-", "-", "5%", "42%", "1.00x", "ONLINE", "-">>)

\* Files with ZFSPools sections.
MaxZFSLines == 4

ZFSLines ==
    {HeaderLine(Label_zfspools, TRUE), Line_zfs_name, Line_rpool, Line_pool2, Line_pool_ten,
     Line_tank, Line_namepool, Line_blank}

NextZFS == Parse(ZFSLines, MaxZFSLines)

SpecZFS == Init /\ [][NextZFS]_vars

\* a line of exactly 11 tokens whose first token contains 'pool'
IsElevenTokenPoolLine(line) ==
    /\ Len(split_ws(line)) = 11
    /\ \E i \in 1..Len(split_ws(line)[1]) : split_ws(line)[1][i] \in PoolWords

\* such a line that does not begin with 'NAME'
IsDataRow(line) == IsElevenTokenPoolLine(line) /\ Head(strip(line)) \notin NameWords

\* the fields of a data row: the 11 tokens by position, '-' as the empty text
RowFields(line) ==
    [i \in 1..11 |->
        [k |-> StrKey(<<ZFSPools_using[i]>>),
         v |-> TextVal(IF split_ws(line)[i] = <<"-">> THEN <<>> ELSE split_ws(line)[i])]]

\* with IsRow telling the data rows: unless a line raised, the non-blank lines
\* of the sections go to the records in input order, none lost; a ZFSPools
\* record was given at most one data row, a record made by a split begins
\* with it, and only the record the section header made can have none; a
\* record with a data row has exactly the 11 fields of that row, and a record
\* without one has no field
ZFSRecordsOwnTheirRows(IsRow(_)) ==
    status # "error" =>
        /\ ConcatFed(Live) = ContentLines
        /\ \A k \in 1..Len(Live) :
              heap[Live[k]].kind = "ZFSPools" =>
                  LET r    == heap[Live[k]]
                      rows == SelectSeq(r.fed, IsRow)
                  IN  /\ Len(rows) <= 1
                      /\ r.origin = "split" => (r.fed # <<>> /\ IsRow(r.fed[1]))
                      /\ rows = <<>> => r.items = NewModule("ZFSPools").items
                      /\ rows # <<>> => r.items = NewModule("ZFSPools").items \o RowFields(rows[1])

\* C19 as stated: the data rows are the lines of exactly 11 tokens whose first
\* token contains 'pool'; a section with d >= 1 of them gives d records in
\* input order, each with the 11 fields of its row, '-' as the empty text;
\* every other line changes no record and makes no split.
C19_ElevenTokenPoolLinesAreRows == ZFSRecordsOwnTheirRows(IsElevenTokenPoolLine)

\* C19, amended: as stated, for the lines of exactly 11 tokens whose first
\* token contains 'pool' and that do not begin with 'NAME'; a line that
\* begins with 'NAME' changes no record and makes no split, whatever it holds.
C19_RowsButNameLines == ZFSRecordsOwnTheirRows(IsDataRow)

\* a parsed ZFSPools section: the NAME line, a data row, a line that is not a
\* data row, a second data row
C19_Witness ==
    /\ status = "done"
    /\ Len(modules) = 2
    /\ Rec(1).kind = "ZFSPools" /\ Rec(1).origin = "header"
    /\ Rec(1).fed = <<Line_rpool, Line_tank>>
    /\ Get(Rec(1).items, StrKey(<<"ckpoint">>)) = TextVal(<<>>)
    /\ Get(Rec(1).items, StrKey(<<"health">>)) = TextVal(<<"ONLINE">>)
    /\ Rec(2).kind = "ZFSPools" /\ Rec(2).origin = "split"
    /\ Rec(2).fed = <<Line_pool2>>
    /\ Get(Rec(2).items, StrKey(<<"altroot">>)) = TextVal(<<"/mnt">>)

----------------------------------------------------------------------------
(* Re-ingesting the raw-line bucket *)

\* the kinds whose add_line appends to the bucket self.items['lines']
BucketKinds == {"Ignore", "Unknown", "Network"}

\* add_line on each of the lines in turn, up to the first that raises or
\* returns a new instance
RECURSIVE Refeed(_, _)
Refeed(self, lines) ==
    IF lines = <<>> THEN Ret(self)
    ELSE LET x == add_line(self, Head(lines))
         IN  IF x.exc # "" \/ x.split THEN x ELSE Refeed(x.self, Tail(lines))

\* C20: for a finalised record of a kind that keeps a raw-line bucket, giving
\* the lines of the bucket, in order, to a fresh record of the same kind
\* raises nothing and makes no split, and after finalise the fresh record has
\* the fields (bucket included) of the record.
C20_BucketRoundTrip ==
    \A id \in 1..Len(heap) :
        (heap[id].nfin > 0 /\ heap[id].kind \in BucketKinds) =>
            LET x == Refeed(NewModule(heap[id].kind), Get(heap[id].items, K_lines).l)
            IN  /\ x.exc = ""
                /\ ~x.split
                /\ finalise(x.self).items = heap[id].items

----------------------------------------------------------------------------
(* The output sequence at a split *)

\* Files that begin with a section of a kind that splits, or with Ignore
\* sections before it.
MaxSplitLines == 4

SplitLines ==
    {Line_access, Line_cpu, HeaderLine(Label_network, TRUE), HeaderLine(Label_disks, TRUE),
     HeaderLine(Label_zfspools, TRUE), Line_proc0, Line_netdecl, Line_rpool}

NextSplit == Parse(SplitLines, MaxSplitLines)

SpecSplit == Init /\ [][NextSplit]_vars

\* C23: a loop iteration in which add_line returned a new instance finds the
\* output sequence non-empty when it reads modules[0] (no IndexError): the
\* loop goes on, and the first record of the output is the one it was before
\* the iteration or, when the output was empty, the record that was current.
C23_SplitReadsNonEmptyOutput ==
    [][ last'.op = "split" =>
           /\ status' = "run" /\ err' = ""
           /\ modules' # <<>>
           /\ modules'[1] = (IF modules # <<>> THEN modules[1] ELSE current_module)
      ]_vars

\* a split in the first section that is not ignored, after an Ignore section:
\* the output held nothing before the split
C23_Witness ==
    /\ last.op = "split"
    /\ Len(input) = 4
    /\ detect_module(input[1]) = "Ignore"
    /\ Len(modules) = 1
    /\ Rec(1).kind \in {"Network", "Disks", "ZFSPools"}

----------------------------------------------------------------------------
(* 'key: value' lines *)

Line_host == L(<<"host", ":", " ", "host", " ", "alpha">>)

\* Files with Header and CPU sections of 'key: value' lines.
MaxColonLines == 4

ColonLines == {Line_status, Line_cpu, Line_time, Line_host, Line_proc0, Line_blank}

NextColon == Parse(ColonLines, MaxColonLines)

SpecColon == Init /\ [][NextColon]_vars

HasColon(line) == \E i \in 1..Len(line) : line[i] = ":"

FirstColon(line) == CHOOSE i \in 1..Len(line) : line[i] = ":" /\ \A k \in 1..(i - 1) : line[k] # ":"

\* the trimmed text before the first colon, and after it
BeforeColon(line) == strip(SubSeq(line, 1, FirstColon(line) - 1))

AfterColon(line) == strip(SubSeq(line, FirstColon(line) + 1, Len(line)))

\* the last line with this key that the record was given is this one
IsLastWithKey(r, i) ==
    \A j \in (i + 1)..Len(r.fed) :
        HasColon(r.fed[j]) => BeforeColon(r.fed[j]) # BeforeColon(r.fed[i])

\* C22: for every 'key: value' line a Header or CPU record was given,
\* split_first_colon gives the trimmed text before the first colon as the key
\* and the trimmed text after it as the value, and that value is what is
\* coerced and stored: the text itself under 'host', the time 12:34:56 under
\* 'time'; also when the key occurs again in the value ('host: host alpha')
\* and when the value holds colons ('time: 12:34:56').
C22_KeyAndValueAroundFirstColon ==
    \A id \in 1..Len(heap) :
        heap[id].kind \in {"Header", "CPU"} =>
            \A i \in 1..Len(heap[id].fed) :
                LET r    == heap[id]
                    line == r.fed[i]
                IN  HasColon(line) =>
                        /\ split_first_colon(strip(line)).key = BeforeColon(line)
                        /\ split_first_colon(strip(line)).data = AfterColon(line)
                        /\ (line = Line_host /\ IsLastWithKey(r, i)) =>
                              /\ Has(r.items, StrKey(<<"host">>))
                              /\ Get(r.items, StrKey(<<"host">>)) = TextVal(<<"host", " ", "alpha">>)
                        /\ (line = Line_time /\ r.kind = "Header") =>
                              /\ Has(r.items, K_time)
                              /\ Get(r.items, K_time) = TimeVal(<<12, 34, 56>>)

----------------------------------------------------------------------------
(* Two parsers at once *)

\* What one AlpLogParser(filepath) call owns: self.modules (line 444) and the
\* locals of __init__ (line 446), with the history of that call.  The frame
\* of the call that is not running is the object heap[1]; the variables hold
\* the frame of the call that is running, which is call who.
Frame(who, mods, cur, st, e, inp, sp, la) ==
    [kind |-> "AlpLogParser", who |-> who, modules |-> mods, current_module |-> cur,
     status |-> st, err |-> e, input |-> inp, splits |-> sp, last |-> la]

FreshFrame(who) == Frame(who, <<>>, None, "run", "", <<>>, 0, [op |-> "init", prev |-> None])

\* Variant of line 444 in which modules is an attribute of the class: the
\* list a call sees is the one the other call has been appending to.
self_modules_of_class(own, other) == other

\* line 444: self.modules = list(), a list of the instance
self_modules(own, other) == own

InitPair ==
    /\ heap = <<FreshFrame(2)>>
    /\ modules = <<>>
    /\ current_module = None
    /\ status = "run"
    /\ err = ""
    /\ input = <<>>
    /\ splits = 0
    /\ last = [op |-> "init", prev |-> None]

\* The scheduler lets the other call run: between two iterations of the for
\* loop, or when the running call has ended.
Switch ==
    /\ heap[1].status = "run"
    /\ heap' = [heap EXCEPT ![1] = Frame(3 - heap[1].who, modules, current_module, status,
                                          err, input, splits, last)]
    /\ modules' = self_modules(heap[1].modules, modules)
    /\ current_module' = heap[1].current_module
    /\ status' = heap[1].status
    /\ err' = heap[1].err
    /\ input' = heap[1].input
    /\ splits' = heap[1].splits
    /\ last' = heap[1].last

\* Two files, each of at most MaxPairLines lines: the first call reads a file
\* of CPU sections, the second a file of Users sections.
MaxPairLines == 3

FirstFileLines == {Line_cpu, Line_proc0}

SecondFileLines == {HeaderLine(Label_users, TRUE), Line_proc0}

NextPair ==
    \/ heap[1].who = 2 /\ Parse(FirstFileLines, MaxPairLines)
    \/ heap[1].who = 1 /\ Parse(SecondFileLines, MaxPairLines)
    \/ Switch

SpecPair == InitPair /\ [][NextPair]_vars

\* AlpLogParser(filepath) run alone, as a function of the lines of the file:
\* the state before the loop, one iteration of the loop (lines 448-461), the
\* call after the loop (line 462)
AloneInit == [heap |-> <<>>, modules |-> <<>>, current_module |-> None, status |-> "run", err |-> ""]

AloneLine(st, line) ==
    IF detect_module(line) # NoModule
    THEN LET fin == IF st.current_module # None
                    THEN finalise_module(st.heap, st.modules, st.current_module)
                    ELSE [heap |-> st.heap, modules |-> st.modules]
             new == NewModule(detect_module(line))
         IN  [st EXCEPT !.heap = Append(fin.heap,
                                        IF has_first(fin.modules)
                                        THEN set_timestamp(new, first_timestamp(fin.heap, fin.modules))
                                        ELSE new),
                        !.modules = fin.modules,
                        !.current_module = Len(st.heap) + 1]
    ELSE IF st.current_module = None THEN st
    ELSE LET r == add_line(st.heap[st.current_module], line)
         IN  IF r.exc # "" THEN [st EXCEPT !.status = "error", !.err = r.exc]
             ELSE IF r.split
             THEN LET fin == finalise_module([st.heap EXCEPT ![st.current_module] = r.self],
                                             st.modules, st.current_module)
                  IN  IF fin.modules = <<>>
                      THEN [st EXCEPT !.status = "error", !.err = "IndexError"]
                      ELSE [st EXCEPT !.heap = Append(fin.heap,
                                          set_timestamp([Fed(r.new, line) EXCEPT !.origin = "split"],
                                                        split_timestamp(fin.heap, fin.modules))),
                                      !.modules = fin.modules,
                                      !.current_module = Len(st.heap) + 1]
             ELSE [st EXCEPT !.heap = [st.heap EXCEPT ![st.current_module] = Fed(r.self, line)]]

AloneEnd(st) ==
    IF st.current_module = None
    THEN [st EXCEPT !.status = "error", !.err = "AttributeError"]
    ELSE LET fin == finalise_module(st.heap, st.modules, st.current_module)
         IN  [st EXCEPT !.heap = fin.heap, !.modules = fin.modules, !.status = "done"]

RECURSIVE AloneLines(_, _)
AloneLines(st, lines) ==
    IF lines = <<>> \/ st.status # "run" THEN st
    ELSE AloneLines(AloneLine(st, Head(lines)), Tail(lines))

\* the call alone on these lines, to the end of the file or not yet
Alone(lines, ended) ==
    LET st == AloneLines(AloneInit, lines)
    IN  IF ended /\ st.status = "run" THEN AloneEnd(st) ELSE st

\* the records a list names, and the one a cursor names, as values
RecordsOf(h, mods) == [i \in 1..Len(mods) |-> h[mods[i]]]

CursorOf(h, cur) == IF cur = None THEN <<>> ELSE <<h[cur]>>

\* the frame of the running call
Running ==
    Frame(3 - heap[1].who, modules, current_module, status, err, input, splits, last)

\* the objects a call holds
Held(f) == {f.modules[i] : i \in 1..Len(f.modules)} \cup ({f.current_module} \ {None})

\* a call is where it would be alone on the lines it has read
AsAlone(f) ==
    \A a \in {Alone(f.input, f.last.op = "eof")} :
        /\ f.status = a.status
        /\ f.err = a.err
        /\ RecordsOf(heap, f.modules) = RecordsOf(a.heap, a.modules)
        /\ CursorOf(heap, f.current_module) = CursorOf(a.heap, a.current_module)

\* C21: with two calls of AlpLogParser whose loop iterations are interleaved
\* in any order, each call has, after every iteration and at its end, the
\* status, the output sequence (record by record, with fields, bucket,
\* private list and timestamp) and the current record it has when run alone
\* on the lines it has read; and the two calls hold no record in common.
C21_InterleavedAsAlone ==
    /\ AsAlone(Running)
    /\ AsAlone(heap[1])
    /\ Held(Running) \cap Held(heap[1]) = {}

\* both calls have returned, one with a record made by a split, the other
\* with a record that was given a line, and the records of the one were
\* made before and after a record of the other
C21_Witness ==
    /\ status = "done" /\ heap[1].status = "done"
    /\ \E i \in Held(Running) : heap[i].origin = "split"
    /\ \E j \in Held(heap[1]) : heap[j].kind = "Users" /\ heap[j].acc # <<>>
    /\ \E i \in Held(Running), j \in Held(heap[1]), k \in Held(Running) : i < j /\ j < k

============================================================================
